---- MODULE Spec2Model ----
(***************************************************************************)
(* Model of bot.py: the Telegram vanity-address bot.                       *)
(*                                                                         *)
(* Strings are sequences of one-character strings, so that lower(),        *)
(* startswith(), endswith() and the HEX_PATTERN match are computed         *)
(* character by character, as Python computes them.                        *)
(***************************************************************************)
EXTENDS Naturals, Sequences, FiniteSets

\* ------------------------------------------------------------------ bounds

\* Updates the bot receives in one behaviour of Spec.
NumUpdates == 2

\* Hex digits after "0x" in an address (40 in eth_account).
AddrLen == 6

\* Cap on the attempts counter of generate_wallet (unbounded in Python).
MaxAttempts == 2

\* Longest argument enumerated character by character in ParseSpec.
MaxShort == 2

\* os.cpu_count() or 4 of the host.
max_workers == 1

\* The period of the progress log in attempts: 1_000_000 in generate_wallet,
\* scaled down to fall within MaxAttempts.
ProgressEvery == 2

\* ------------------------------------------------------- program constants

OWNER_CHAT_ID == 1558397457

\* ---------------------------------------------------------------- strings

UpperChars == <<"A", "B", "C", "D", "E", "F", "G", "X">>

LowerChars == <<"a", "b", "c", "d", "e", "f", "g", "x">>

\* The lower-case letter of each upper-case letter, and the reverse.
ToLower == [c \in {UpperChars[i] : i \in 1..Len(UpperChars)} |->
               LowerChars[CHOOSE i \in 1..Len(UpperChars) : UpperChars[i] = c]]

ToUpper == [c \in {LowerChars[i] : i \in 1..Len(LowerChars)} |->
               UpperChars[CHOOSE i \in 1..Len(LowerChars) : LowerChars[i] = c]]

\* str.lower() on one character
LowerChar(c) == IF c \in DOMAIN ToLower THEN ToLower[c] ELSE c

\* str.upper() on one character
UpperChar(c) == IF c \in DOMAIN ToUpper THEN ToUpper[c] ELSE c

\* str.lower()
Lower(s) == [i \in 1..Len(s) |-> LowerChar(s[i])]

\* str.startswith()
StartsWith(s, t) == Len(t) <= Len(s) /\ SubSeq(s, 1, Len(t)) = t

\* str.endswith()
EndsWith(s, t) == Len(t) <= Len(s) /\ SubSeq(s, Len(s) - Len(t) + 1, Len(s)) = t

\* The character class [0-9a-fA-F]
HexChars ==
    {"0", "1", "2", "3", "4", "5", "6", "7", "8", "9",
     "a", "b", "c", "d", "e", "f", "A", "B", "C", "D", "E", "F"}

\* Mutant: the pattern searched for anywhere in s instead of matched over all of it.
HEX_PATTERN_search(s) == \E i \in 1..Len(s) : s[i] \in HexChars

\* HEX_PATTERN.fullmatch(s): ^[0-9a-fA-F]+$ over the whole string
HEX_PATTERN_fullmatch(s) == Len(s) >= 1 /\ \A i \in 1..Len(s) : s[i] \in HexChars

\* ------------------------------------------------------------- eth_account

\* The hex digits an address is drawn over: one letter and one digit.
AddrNibbles == {"f", "1"}

\* Private keys Account.create() can draw.
Keys == [1..AddrLen -> AddrNibbles]

\* Letters of a key: decides the casing of its checksum address.
RECURSIVE Letters(_, _)
Letters(key, n) ==
    IF n = 0 THEN 0
    ELSE Letters(key, n - 1) + (IF key[n] = "f" THEN 1 ELSE 0)

\* acct.address: "0x" and AddrLen hex digits, a function of the key alone, in
\* checksum (mixed) case.
Address(key) ==
    <<"0", "x">> \o
    [i \in 1..AddrLen |->
        IF (i + Letters(key, AddrLen)) % 2 = 0
        THEN UpperChar(key[AddrLen + 1 - i])
        ELSE key[AddrLen + 1 - i]]

\* acct.key.hex()
KeyHex(key) == key

\* An account as Account.create() returns it.
Account(key) == [address |-> Address(key), key |-> key]

\* The accounts Account.create() can return.
Accounts == {Account(key) : key \in Keys}

\* --------------------------------------------------------- generate_wallet

\* Mutant: the target prefix built without the leading "0x".
target_prefix_bare(prefix) == Lower(prefix)

\* target_prefix = "0x" + prefix if prefix else "0x"
target_prefix(prefix) ==
    IF Lower(prefix) # <<>> THEN <<"0", "x">> \o Lower(prefix) ELSE <<"0", "x">>

\* Mutant: the checksum address compared as it is, not lowered.
RawAddress(acct) == acct.address

\* address = acct.address.lower()
LoweredAddress(acct) == Lower(acct.address)

\* Mutant: the suffix test left out.
LoopReturns_NoSuffixTest(prefix, suffix, acct) ==
    StartsWith(LoweredAddress(acct), target_prefix(prefix))

\* Mutant: the guard of the suffix test turned round, an empty suffix never
\* reaching the return.
LoopReturns_SuffixRequired(prefix, suffix, acct) ==
    IF ~StartsWith(LoweredAddress(acct), target_prefix(prefix)) THEN FALSE
    ELSE IF Lower(suffix) = <<>> \/ ~EndsWith(LoweredAddress(acct), Lower(suffix))
         THEN FALSE
         ELSE TRUE

\* One pass of the while loop on the account drawn: TRUE when it reaches the
\* return, FALSE when it takes one of the two continue branches.
LoopReturns(prefix, suffix, acct) ==
    IF ~StartsWith(LoweredAddress(acct), target_prefix(prefix)) THEN FALSE
    ELSE IF Lower(suffix) # <<>> /\ ~EndsWith(LoweredAddress(acct), Lower(suffix))
         THEN FALSE
         ELSE TRUE

\* Mutant: the key taken from a second Account.create(), not from the account
\* that matched.
Returned_OtherKey(acct) ==
    [address |-> LoweredAddress(acct),
     private_key |-> KeyHex(CHOOSE key \in Keys : key # acct.key)]

\* return address, acct.key.hex()
Returned(acct) == [address |-> LoweredAddress(acct), private_key |-> KeyHex(acct.key)]

\* No keypair.
NoResult == [address |-> <<>>, private_key |-> <<>>]

\* -------------------------------------------------------- generate_handler

\* Mutant: the dash taken as a pattern like any other.
Absent_Keep(arg) == arg

\* prefix = "" if prefix_arg == "-" else prefix_arg
Absent(arg) == IF arg = <<"-">> THEN <<>> ELSE arg

\* prefix_arg = context.args[0]
prefix_arg(args) == args[1]

\* suffix_arg = context.args[1] if len(context.args) >= 2 else ""
suffix_arg(args) == IF Len(args) >= 2 THEN args[2] ELSE <<>>

\* Mutant: only the prefix measured.
TooLong_PrefixOnly(prefix, suffix) == Len(prefix) > 6

\* len(prefix) > 6 or len(suffix) > 6
TooLong(prefix, suffix) == Len(prefix) > 6 \/ Len(suffix) > 6

\* update.message.reply_text(...): a message in the chat the command came from
Reply(u, kind, address) ==
    [via |-> "reply_text", chat_id |-> u.chat_id, kind |-> kind,
     address |-> address, private_key |-> <<>>, ok |-> TRUE]

\* Mutant: the length check made before the two hex checks.
Entry_LengthFirst(u) ==
    LET none == [replies |-> <<>>, submit |-> FALSE, prefix |-> <<>>, suffix |-> <<>>]
        only(kind) == [none EXCEPT !.replies = <<Reply(u, kind, <<>>)>>]
    IN
    IF ~u.user.present THEN none
    ELSE IF u.user.username = "" THEN only("no_username")
    ELSE IF u.args = <<>> THEN only("usage")
    ELSE
      LET prefix == Absent(prefix_arg(u.args))
          suffix == Absent(suffix_arg(u.args))
      IN
      IF TooLong(prefix, suffix) THEN only("too_long")
      ELSE IF prefix # <<>> /\ ~HEX_PATTERN_fullmatch(prefix) THEN only("prefix_not_hex")
      ELSE IF suffix # <<>> /\ ~HEX_PATTERN_fullmatch(suffix) THEN only("suffix_not_hex")
      ELSE [replies |-> <<Reply(u, "waiting", <<>>)>>, submit |-> TRUE,
            prefix |-> prefix, suffix |-> suffix]

\* The handler from its entry to its first return or to the await of
\* _async_generate: the replies it sends, whether it submits a search, and the
\* prefix and suffix it submits.
Entry(u) ==
    LET none == [replies |-> <<>>, submit |-> FALSE, prefix |-> <<>>, suffix |-> <<>>]
        only(kind) == [none EXCEPT !.replies = <<Reply(u, kind, <<>>)>>]
    IN
    IF ~u.user.present THEN none
    ELSE IF u.user.username = "" THEN only("no_username")
    ELSE IF u.args = <<>> THEN only("usage")
    ELSE
      LET prefix == Absent(prefix_arg(u.args))
          suffix == Absent(suffix_arg(u.args))
      IN
      IF prefix # <<>> /\ ~HEX_PATTERN_fullmatch(prefix) THEN only("prefix_not_hex")
      ELSE IF suffix # <<>> /\ ~HEX_PATTERN_fullmatch(suffix) THEN only("suffix_not_hex")
      ELSE IF TooLong(prefix, suffix) THEN only("too_long")
      ELSE [replies |-> <<Reply(u, "waiting", <<>>)>>, submit |-> TRUE,
            prefix |-> prefix, suffix |-> suffix]

\* ------------------------------------------------------------ environment

\* A user with a username, writing in a group chat.
Alice == [present |-> TRUE, id |-> 7, username |-> "alice"]

\* The owner of the bot, writing in the private chat with the bot.
Owner == [present |-> TRUE, id |-> OWNER_CHAT_ID, username |-> "owner"]

\* A user who has set no username.
Anon == [present |-> TRUE, id |-> 8, username |-> ""]

\* update.effective_user is None
Nobody == [present |-> FALSE, id |-> 0, username |-> ""]

Users == {Alice, Owner, Anon, Nobody}

\* The chat a user's command comes from: a group for Alice, else the private chat.
ChatOf(user) == IF user = Alice THEN 100 ELSE user.id

\* A /generate command of `user` with the arguments `args`.
Command(user, args) == [user |-> user, chat_id |-> ChatOf(user), args |-> args]

\* The characters an argument is enumerated over: a letter in both cases, a
\* digit, a letter that is no hex digit, and the dash.
ArgChars == {"f", "F", "1", "g", "-"}

\* s repeated up to n characters
Repeat(s, n) == [i \in 1..n |-> s[((i - 1) % Len(s)) + 1]]

\* Every argument of up to MaxShort characters, and arguments of 6 and of 7
\* characters (the length limit and one past it).
ArgStrings ==
    UNION {[1..n -> ArgChars] : n \in 1..MaxShort}
    \cup {Repeat(s, n) : s \in [1..2 -> ArgChars], n \in {6, 7}}

\* context.args of the commands enumerated in ParseSpec: none, a prefix, a
\* prefix and a suffix.
ArgLists ==
    {<<>>} \cup {<<p>> : p \in ArgStrings}
           \cup {<<p, s>> : p \in ArgStrings, s \in ArgStrings}

\* The commands of ParseSpec.
AllCommands == {Command(user, args) : user \in Users, args \in ArgLists}

\* The commands of Spec: two that pass validation (a prefix and a suffix that
\* leave no digit of the address free; a suffix alone that leaves one free), and
\* one of each way to be turned away.
Commands ==
    {Command(Alice, << Repeat(<<"F", "1", "f", "1">>, AddrLen - 1), <<"f">> >>),
     Command(Owner, << <<"-">>, Repeat(<<"1", "F", "1", "f">>, AddrLen - 1) >>),
     Command(Alice, << <<"g", "1">> >>),
     Command(Alice, << <<"f">>, <<"1", "-">> >>),
     Command(Owner, << <<"f">>, Repeat(<<"1", "f">>, 7) >>),
     Command(Alice, <<>>),
     Command(Anon, << <<"f">> >>),
     Command(Nobody, << <<"f">> >>)}

\* ------------------------------------------------------------------ state

VARIABLES
    update,      \* update[r]: the update of request r, once received
    hstate,      \* hstate[r]: where the handler of r is
    pattern,     \* pattern[r]: the prefix and suffix passed to _async_generate
    work,        \* work[r]: the state of the future of r's search in the executor
    work_queue,  \* the executor's queue of work items, first submitted first
    attempts,    \* attempts[r]: the counter of r's generate_wallet call
    result,      \* result[r]: what r's generate_wallet call returned
    sent,        \* sent[r]: the send calls the handler of r has made, in order,
                 \*          each with whether it went through (ok)
    progress     \* progress[r]: the attempts values r's search has logged

vars == <<update, hstate, pattern, work, work_queue, attempts, result, sent, progress>>

Requests == 1..NumUpdates

NoUpdate == Command(Nobody, <<>>)

NoPattern == [prefix |-> <<>>, suffix |-> <<>>]

Init ==
    /\ update = [r \in Requests |-> NoUpdate]
    /\ hstate = [r \in Requests |-> "idle"]
    /\ pattern = [r \in Requests |-> NoPattern]
    /\ work = [r \in Requests |-> "none"]
    /\ work_queue = <<>>
    /\ attempts = [r \in Requests |-> 0]
    /\ result = [r \in Requests |-> NoResult]
    /\ sent = [r \in Requests |-> <<>>]
    /\ progress = [r \in Requests |-> <<>>]

\* ---------------------------------------------------------------- actions

\* Application.process_update with the defaults main() builds the application
\* with (no concurrent_updates, a blocking CommandHandler): updates are taken in
\* the order they arrive, and the next one only once the handler of the one
\* before has returned or was cancelled.
Dispatchable(r) ==
    /\ hstate[r] = "idle"
    /\ \A q \in Requests : q < r => hstate[q] # "idle"
    /\ \A q \in Requests : hstate[q] # "awaiting"

\* generate_handler on update u, up to its return or its await of
\* _async_generate, where loop.run_in_executor puts the work item on the
\* executor's queue.
Handle(r, u) ==
    /\ Dispatchable(r)
    /\ update' = [update EXCEPT ![r] = u]
    /\ sent' = [sent EXCEPT ![r] = Entry(u).replies]
    /\ IF Entry(u).submit
       THEN /\ hstate' = [hstate EXCEPT ![r] = "awaiting"]
            /\ pattern' = [pattern EXCEPT ![r] =
                              [prefix |-> Entry(u).prefix, suffix |-> Entry(u).suffix]]
            /\ work' = [work EXCEPT ![r] = "pending"]
            /\ work_queue' = Append(work_queue, r)
       ELSE /\ hstate' = [hstate EXCEPT ![r] = "done"]
            /\ UNCHANGED <<pattern, work, work_queue>>
    /\ UNCHANGED <<attempts, result, progress>>

\* A /generate command arrives (Spec).
Receive(r) == Dispatchable(r) /\ \E u \in Commands : Handle(r, u)

\* A /generate command arrives, with any arguments (ParseSpec: one request).
ReceiveAny == Dispatchable(1) /\ \E u \in AllCommands : Handle(1, u)

\* Searches a worker thread of the executor is running.
Running == {r \in Requests : work[r] = "running"}

\* Mutant: a thread started for every work item, whatever max_workers.
IdleWorker_Always == TRUE

\* Mutant: the last thread of the pool never started.
IdleWorker_OffByOne == Cardinality(Running) + 1 < max_workers

\* ThreadPoolExecutor(max_workers=...): a thread is free to take a work item.
IdleWorker == Cardinality(Running) < max_workers

\* A free worker thread takes the first work item of the queue and starts
\* generate_wallet on it.
StartWork ==
    /\ work_queue # <<>>
    /\ IdleWorker
    /\ work[Head(work_queue)] = "pending"
    /\ work' = [work EXCEPT ![Head(work_queue)] = "running"]
    /\ work_queue' = Tail(work_queue)
    /\ UNCHANGED <<update, hstate, pattern, attempts, result, sent, progress>>

\* A free worker thread takes a work item whose future was cancelled while it
\* was queued, and drops it.
SkipCancelled ==
    /\ work_queue # <<>>
    /\ IdleWorker
    /\ work[Head(work_queue)] = "cancelled"
    /\ work_queue' = Tail(work_queue)
    /\ UNCHANGED <<update, hstate, pattern, work, attempts, result, sent, progress>>

\* The patterns a handler can pass to _async_generate.
Patterns ==
    {[prefix |-> Entry(u).prefix, suffix |-> Entry(u).suffix] :
        u \in {c \in AllCommands \cup Commands : Entry(c).submit}}

\* For each pattern, the accounts the loop returns on and those it goes round
\* again on (LoopReturns, tabulated).
ReturnedOn ==
    [pat \in Patterns |->
        {acct \in Accounts : LoopReturns(pat.prefix, pat.suffix, acct)}]

ContinuedOn == [pat \in Patterns |-> Accounts \ ReturnedOn[pat]]

\* attempts % 1_000_000 == 0: a progress record is due
ProgressDue(n) == n % ProgressEvery = 0

\* One pass of generate_wallet's loop for request r, Account.create() returning
\* `acct`: attempts += 1, then return or continue. The progress log stands after
\* the return, in the loop body: the two continue branches and the return all
\* leave the pass before it, so no pass writes a record.
Iteration(r, acct) ==
    /\ work[r] = "running"
    /\ attempts[r] < MaxAttempts
    /\ attempts' = [attempts EXCEPT ![r] = @ + 1]
    /\ \/ /\ work' = [work EXCEPT ![r] = "finished"]
          /\ result' = [result EXCEPT ![r] = Returned(acct)]
          /\ LoopReturns(pattern[r].prefix, pattern[r].suffix, acct)
       \/ /\ attempts[r] + 1 < MaxAttempts
          /\ UNCHANGED <<result, work>>
          /\ ~LoopReturns(pattern[r].prefix, pattern[r].suffix, acct)
    /\ UNCHANGED <<update, hstate, pattern, work_queue, sent, progress>>

\* The loop draws an account that passes both tests, and returns it.
Hit(r) ==
    /\ work[r] = "running"
    /\ \E acct \in ReturnedOn[pattern[r]] : Iteration(r, acct)

\* The loop draws an account that fails a test, and goes round again. Every
\* such account leaves the same state behind, so one stands for all of them.
Miss(r) ==
    /\ work[r] = "running"
    /\ ContinuedOn[pattern[r]] # {}
    /\ Iteration(r, CHOOSE acct \in ContinuedOn[pattern[r]] : TRUE)

\* Account.create() raises in the worker thread: the future holds the exception.
WorkerFail(r) ==
    /\ work[r] = "running"
    /\ work' = [work EXCEPT ![r] = "failed"]
    /\ UNCHANGED <<update, hstate, pattern, work_queue, attempts, result, sent, progress>>

\* Mutant: the document sent to the chat the command came from.
DirectMessage_ToChat(u, res, ok) ==
    [via |-> "send_document", chat_id |-> u.chat_id, kind |-> "wallet",
     address |-> res.address, private_key |-> res.private_key, ok |-> ok]

\* context.bot.send_document(chat_id=user.id, ...): the wallet, to the
\* requester; ok is FALSE when the call raises.
DirectMessage(u, res, ok) ==
    [via |-> "send_document", chat_id |-> u.user.id, kind |-> "wallet",
     address |-> res.address, private_key |-> res.private_key, ok |-> ok]

\* context.bot.send_message(chat_id=OWNER_CHAT_ID, ...): the copy for the
\* owner; ok is FALSE when the call raises.
OwnerMessage(u, res, ok) ==
    [via |-> "send_message", chat_id |-> OWNER_CHAT_ID, kind |-> "owner_copy",
     address |-> res.address, private_key |-> res.private_key, ok |-> ok]

\* Mutant: the exception of send_document not caught, ending the handler
\* before the copy for the owner.
Deliver_DmFailureAborts(r) ==
    /\ hstate[r] = "awaiting"
    /\ work[r] = "finished"
    /\ hstate' = [hstate EXCEPT ![r] = "done"]
    /\ \E dm_ok \in BOOLEAN, owner_ok \in BOOLEAN :
         sent' = [sent EXCEPT ![r] =
                     @ \o <<Reply(update[r], "found", result[r].address),
                            DirectMessage(update[r], result[r], dm_ok)>>
                       \o (IF OWNER_CHAT_ID # update[r].user.id /\ dm_ok
                           THEN <<OwnerMessage(update[r], result[r], owner_ok)>>
                           ELSE <<>>)]
    /\ UNCHANGED <<update, pattern, work, work_queue, attempts, result, progress>>

\* The handler after _async_generate returned (address, priv_key): the reply in
\* the chat, the document to the requester, the copy to the owner unless the
\* requester is the owner. Either of the two sends may raise, which is caught
\* and logged.
Deliver(r) ==
    /\ hstate[r] = "awaiting"
    /\ work[r] = "finished"
    /\ hstate' = [hstate EXCEPT ![r] = "done"]
    /\ \E dm_ok \in BOOLEAN, owner_ok \in BOOLEAN :
         sent' = [sent EXCEPT ![r] =
                     @ \o <<Reply(update[r], "found", result[r].address),
                            DirectMessage(update[r], result[r], dm_ok)>>
                       \o (IF OWNER_CHAT_ID # update[r].user.id
                           THEN <<OwnerMessage(update[r], result[r], owner_ok)>>
                           ELSE <<>>)]
    /\ UNCHANGED <<update, pattern, work, work_queue, attempts, result, progress>>

\* Mutant: the exception swallowed, the handler returning without a reply.
ReportError_Silent(r) ==
    /\ hstate[r] = "awaiting"
    /\ work[r] = "failed"
    /\ hstate' = [hstate EXCEPT ![r] = "done"]
    /\ UNCHANGED <<update, pattern, work, work_queue, attempts, result, sent, progress>>

\* The handler after _async_generate raised: except Exception, the error reply.
ReportError(r) ==
    /\ hstate[r] = "awaiting"
    /\ work[r] = "failed"
    /\ hstate' = [hstate EXCEPT ![r] = "done"]
    /\ sent' = [sent EXCEPT ![r] = Append(@, Reply(update[r], "error", <<>>))]
    /\ UNCHANGED <<update, pattern, work, work_queue, attempts, result, progress>>

\* The task running the handler is cancelled while it awaits _async_generate:
\* CancelledError is raised at the await (except Exception does not catch it).
\* The future of a search still queued is cancelled with it; generate_wallet
\* reads no flag, and the future of a search a thread is running cannot be
\* cancelled.
Cancel(r) ==
    /\ hstate[r] = "awaiting"
    /\ hstate' = [hstate EXCEPT ![r] = "cancelled"]
    /\ work' = [work EXCEPT ![r] = IF @ = "pending" THEN "cancelled" ELSE @]
    /\ UNCHANGED <<update, pattern, work_queue, attempts, result, sent, progress>>

\* ---------------------------------------------------------- specifications

Serve(r) ==
    \/ Hit(r)
    \/ Miss(r)
    \/ WorkerFail(r)
    \/ Deliver(r)
    \/ ReportError(r)
    \/ Cancel(r)

Next ==
    \/ \E r \in Requests : Receive(r)
    \/ StartWork
    \/ SkipCancelled
    \/ \E r \in Requests : Serve(r)

\* The bot serving NumUpdates commands drawn from Commands.
Spec == Init /\ [][Next]_vars

NextParse ==
    \/ ReceiveAny
    \/ StartWork
    \/ SkipCancelled
    \/ \E r \in Requests : Serve(r)

\* The bot serving one command, with every argument list of ArgLists.
ParseSpec == Init /\ [][NextParse]_vars

\* Threads of the pool and callbacks of the event loop get to run; a running
\* search keeps drawing, and in the end draws an account that matches.
Fairness ==
    /\ WF_vars(StartWork)
    /\ WF_vars(SkipCancelled)
    /\ \A r \in Requests : WF_vars(Hit(r)) /\ WF_vars(Deliver(r)) /\ WF_vars(ReportError(r))

LiveSpec == Spec /\ Fairness

\* ------------------------------------------------------------- properties

\* The request's handler got as far as reading context.args: the user has a
\* username and gave at least one argument.
Parsed(r) ==
    /\ hstate[r] # "idle"
    /\ update[r].user.present
    /\ update[r].user.username # ""
    /\ update[r].args # <<>>

\* The prefix and suffix arguments as the user typed them ("" for no suffix).
RawPrefix(r) == update[r].args[1]

RawSuffix(r) == IF Len(update[r].args) >= 2 THEN update[r].args[2] ELSE <<>>

\* The component is given (neither the dash nor left out).
Given(arg) == arg # <<>> /\ arg # <<"-">>

\* Some character of s is outside 0-9a-fA-F.
NonHex(s) == \E i \in 1..Len(s) : s[i] \notin HexChars

\* The kinds of the replies sent so far.
Kinds(r) == [i \in 1..Len(sent[r]) |-> sent[r][i].kind]

\* address is "0x", p, any filler, s.
OfForm(address, p, s) ==
    /\ Len(address) >= 2 + Len(p) + Len(s)
    /\ address[1] = "0" /\ address[2] = "x"
    /\ \A i \in 1..Len(p) : address[2 + i] = p[i]
    /\ \A i \in 1..Len(s) : address[Len(address) - Len(s) + i] = s[i]

\* address is "0x", p, any filler, s, up to the case of the letters.
OfFormFolded(address, p, s) ==
    /\ Len(address) >= 2 + Len(p)
    /\ Len(address) >= Len(s)
    /\ address[1] = "0" /\ LowerChar(address[2]) = "x"
    /\ \A i \in 1..Len(p) : LowerChar(address[2 + i]) = LowerChar(p[i])
    /\ \A i \in 1..Len(s) :
          LowerChar(address[Len(address) - Len(s) + i]) = LowerChar(s[i])

\* This step is a pass of the loop of r's search.
Pass(r) == work[r] = "running" /\ attempts'[r] = attempts[r] + 1

\* The accounts the pass of this step can have drawn: the one whose key it
\* returned, or any account when it went round again.
Drawn(r) ==
    IF work'[r] = "finished"
    THEN {acct \in Accounts : acct.key = result'[r].private_key}
    ELSE Accounts

\* C1: whenever generate_wallet(prefix, suffix) has returned, the address it
\* returned is lowercase, starts with "0x" + lower(prefix) when the prefix is
\* not empty and ends with lower(suffix) when the suffix is not empty, however
\* many passes the loop made.
C1_ReturnedAddressMatches ==
    \A r \in Requests :
        work[r] = "finished" =>
            LET a == result[r].address
                p == pattern[r].prefix
                s == pattern[r].suffix
            IN  /\ \A i \in 1..Len(a) : a[i] = LowerChar(a[i])
                /\ p # <<>> =>
                      /\ Len(a) >= 2 + Len(p)
                      /\ a[1] = "0" /\ a[2] = "x"
                      /\ \A i \in 1..Len(p) : a[2 + i] = LowerChar(p[i])
                /\ s # <<>> =>
                      /\ Len(a) >= Len(s)
                      /\ \A i \in 1..Len(s) : a[Len(a) - Len(s) + i] = LowerChar(s[i])

\* C1 witness: a search with a prefix and a suffix, both with an upper-case
\* letter, returned on its second pass.
C1_Witness ==
    \E r \in Requests :
        /\ work[r] = "finished"
        /\ attempts[r] = 2
        /\ pattern[r].prefix # <<>> /\ pattern[r].prefix # Lower(pattern[r].prefix)
        /\ pattern[r].suffix # <<>> /\ pattern[r].suffix # Lower(pattern[r].suffix)

\* C2: a /generate request whose given prefix or suffix has a character
\* outside 0-9a-fA-F never has a search submitted to the executor, and the
\* handler that read its arguments has sent exactly one reply, the not-hex
\* error of the prefix or of the suffix.
C2_NonHexRejected ==
    \A r \in Requests :
        (/\ hstate[r] # "idle"
         /\ update[r].args # <<>>
         /\ \/ Given(RawPrefix(r)) /\ NonHex(RawPrefix(r))
            \/ Given(RawSuffix(r)) /\ NonHex(RawSuffix(r)))
        => /\ work[r] = "none"
           /\ hstate[r] = "done"
           /\ Parsed(r) => Kinds(r) \in {<<"prefix_not_hex">>, <<"suffix_not_hex">>}

\* C2 witness: a request with a hex prefix and a suffix that mixes hex and
\* non-hex characters was turned away with the suffix error.
C2_Witness ==
    \E r \in Requests :
        /\ Parsed(r)
        /\ Given(RawPrefix(r)) /\ ~NonHex(RawPrefix(r))
        /\ NonHex(RawSuffix(r))
        /\ \E i \in 1..Len(RawSuffix(r)) : RawSuffix(r)[i] \in HexChars
        /\ Kinds(r) = <<"suffix_not_hex">>
        /\ work[r] = "none"

\* C3: a /generate request whose prefix or suffix is longer than 6 characters
\* never has a search submitted to the executor, and the handler that read its
\* arguments has sent exactly one reply, a validation error.
C3_TooLongRejected ==
    \A r \in Requests :
        (/\ hstate[r] # "idle"
         /\ update[r].args # <<>>
         /\ (Len(RawPrefix(r)) > 6 \/ Len(RawSuffix(r)) > 6))
        => /\ work[r] = "none"
           /\ hstate[r] = "done"
           /\ Parsed(r) =>
                 Kinds(r) \in {<<"too_long">>, <<"prefix_not_hex">>, <<"suffix_not_hex">>}

\* C3 witness: a request with a short prefix and a hex suffix of 7 characters
\* was turned away as too long.
C3_Witness ==
    \E r \in Requests :
        /\ Parsed(r)
        /\ Len(RawPrefix(r)) <= 6
        /\ Len(RawSuffix(r)) = 7
        /\ Kinds(r) = <<"too_long">>
        /\ work[r] = "none"

\* C4: once the task awaiting a running search is cancelled, the next pass of
\* the search loop ends the search as cancelled, with no keypair returned.
C4_CancelStopsLoop ==
    [][\A r \in Requests :
          (/\ hstate[r] = "cancelled"
           /\ work[r] = "running"
           /\ attempts'[r] # attempts[r])
          => (work'[r] = "cancelled" /\ result'[r] = NoResult)]_vars

\* C5: cancelling a request while its search runs gives the caller the
\* cancelled outcome, and the first pass of the loop after that frees the
\* worker thread the search holds.
C5_CancelFreesSlot ==
    [][\A r \in Requests :
          /\ (hstate[r] = "awaiting" /\ hstate'[r] = "cancelled") => sent'[r] = sent[r]
          /\ (/\ hstate[r] = "cancelled"
              /\ r \in Running
              /\ attempts'[r] # attempts[r])
             => Cardinality(Running') < Cardinality(Running)]_vars

\* C6: at most max_workers searches are running at any time; every other
\* search submitted and not yet started is on the executor's queue.
C6_AtMostKRunning ==
    /\ Cardinality(Running) <= max_workers
    /\ \A r \in Requests :
          work[r] = "pending" => \E i \in 1..Len(work_queue) : work_queue[i] = r

\* C6 witness: every worker thread is running a search and one more search,
\* submitted meanwhile, waits on the queue.
C6_Witness ==
    /\ Cardinality(Running) = max_workers
    /\ \E r \in Requests : work[r] = "pending" /\ hstate[r] = "awaiting"

\* The search of r is over: it returned, it raised, or it was cancelled on the
\* queue.
Completed(r) == work[r] \in {"finished", "failed", "cancelled"}

\* C7: every search submitted is over in the end and its handler resumed: from
\* some point on no search is queued or running and no handler is awaiting one.
C7_AllComplete ==
    <>[](\A r \in Requests :
            /\ work[r] # "none" => Completed(r)
            /\ hstate[r] # "awaiting")

\* C7 witness: more searches than worker threads were submitted and all are
\* over, one of them delivered by its handler.
C7_Witness ==
    /\ Cardinality({r \in Requests : Completed(r)}) > max_workers
    /\ \E r \in Requests : work[r] = "finished" /\ hstate[r] = "done"
    /\ \E r \in Requests : work[r] = "finished" /\ hstate[r] = "cancelled"

\* The component is a hex string of 0 to 6 characters (0: the dash, or left out).
ValidComponent(arg) == ~Given(arg) \/ (~NonHex(arg) /\ Len(arg) <= 6)

\* C8 (validation): a request whose prefix and suffix are hex strings of 0 to 6
\* characters passes validation: the waiting notice is sent and the search
\* submitted.
C8_ValidAccepted ==
    \A r \in Requests :
        (Parsed(r) /\ ValidComponent(RawPrefix(r)) /\ ValidComponent(RawSuffix(r)))
        => /\ work[r] # "none"
           /\ Head(Kinds(r)) = "waiting"
           /\ pattern[r] = [prefix |-> Absent(RawPrefix(r)), suffix |-> Absent(RawSuffix(r))]

\* C8 (match): the pass of the loop that draws an address "0x" + p + X + s, for
\* any filler X, returns, and returns that account.
C8_FormReturns ==
    \A r \in Requests :
        Pass(r) =>
            \A acct \in Drawn(r) :
                (/\ OfForm(acct.address, pattern[r].prefix, pattern[r].suffix)
                 /\ Iteration(r, acct))
                => (work'[r] = "finished" /\ result'[r].private_key = acct.key)

\* C8: for all hex strings p and s of 0 to 6 characters the request passes
\* validation, and the search loop returns on the pass that draws an address of
\* the form "0x" + p + X + s.
C8_ValidPatternMatchesItsForm == []C8_ValidAccepted /\ [][C8_FormReturns]_vars

\* C8 witness: a search whose prefix has an upper-case letter returned an
\* account whose checksum address is "0x", the prefix, a filler and the suffix,
\* letter for letter.
C8_Witness ==
    \E r \in Requests : \E acct \in Accounts :
        /\ work[r] = "finished"
        /\ result[r].private_key = acct.key
        /\ pattern[r].prefix # Lower(pattern[r].prefix)
        /\ pattern[r].suffix # <<>>
        /\ Len(pattern[r].prefix) + Len(pattern[r].suffix) < AddrLen
        /\ OfForm(acct.address, pattern[r].prefix, pattern[r].suffix)

\* C9: matching ignores the case of the letters, in the pattern and in the
\* address: whatever account a pass of the loop draws, the loop returns on it
\* exactly when the address is "0x", the prefix, a filler and the suffix up to
\* the case of the letters.
C9_CaseInsensitive ==
    [][\A r \in Requests :
          Pass(r) =>
              \A acct \in Drawn(r) :
                  Iteration(r, acct)
                  => (work'[r] = "finished"
                      <=> OfFormFolded(acct.address, pattern[r].prefix, pattern[r].suffix))]_vars

\* C9 witness: a search returned an account whose checksum address differs
\* from the prefix typed in the case of a letter, both ways: a letter upper in
\* the pattern and lower in the address, another lower in the pattern and upper
\* in the address.
C9_Witness ==
    \E r \in Requests : \E acct \in Accounts :
        /\ work[r] = "finished"
        /\ result[r].private_key = acct.key
        /\ \E i \in 1..Len(pattern[r].prefix) :
              /\ pattern[r].prefix[i] # LowerChar(pattern[r].prefix[i])
              /\ acct.address[2 + i] = LowerChar(pattern[r].prefix[i])
        /\ \E i \in 1..Len(pattern[r].prefix) :
              /\ acct.address[2 + i] # LowerChar(acct.address[2 + i])
              /\ pattern[r].prefix[i] = LowerChar(acct.address[2 + i])

\* C10 (validation): a component given as "-", and a suffix left out, is not
\* checked against the hex pattern and is passed to the search as the empty
\* string.
C10_DashNotValidated ==
    \A r \in Requests :
        Parsed(r) =>
            /\ (RawPrefix(r) = <<"-">> /\ ValidComponent(RawSuffix(r)))
               => (work[r] # "none" /\ pattern[r].prefix = <<>>)
            /\ (~Given(RawSuffix(r)) /\ ValidComponent(RawPrefix(r)))
               => (work[r] # "none" /\ pattern[r].suffix = <<>>)

\* C10 (search): the search puts no constraint on an absent component: with
\* the prefix absent the loop returns on every address that ends with the
\* suffix, with the suffix absent on every address that starts with "0x" and
\* the prefix.
C10_AbsentUnconstrained ==
    \A r \in Requests :
        (Pass(r) /\ Parsed(r)) =>
            \A acct \in Drawn(r) :
                Iteration(r, acct)
                => /\ RawPrefix(r) = <<"-">>
                      => (work'[r] = "finished"
                          <=> OfFormFolded(acct.address, <<>>, pattern[r].suffix))
                   /\ ~Given(RawSuffix(r))
                      => (work'[r] = "finished"
                          <=> OfFormFolded(acct.address, pattern[r].prefix, <<>>))

\* C10: a component given as the single dash, or a suffix left out, is absent:
\* it is not validated as hex and the search applies no constraint for it.
C10_DashIsAbsent == []C10_DashNotValidated /\ [][C10_AbsentUnconstrained]_vars

\* C10 witness: "/generate - ff" returned, on its second pass, an address that
\* ends with "ff" and whose first digits are not all the same.
C10_Witness ==
    \E r \in Requests :
        /\ Parsed(r)
        /\ update[r].args = << <<"-">>, <<"f", "f">> >>
        /\ work[r] = "finished"
        /\ attempts[r] = 2
        /\ EndsWith(result[r].address, <<"f", "f">>)
        /\ result[r].address[3] # result[r].address[4]

\* C11 (submit): the handler that passes validation hands its search to the
\* executor at once, whatever the number of busy worker threads: the work item
\* is on the queue, pending, in the same step.
C11_SubmitAccepted ==
    \A r \in Requests :
        (hstate[r] = "awaiting" /\ work[r] = "pending")
        => \E i \in 1..Len(work_queue) : work_queue[i] = r

\* C11 (coordinator): the next command that passes validation can be handled
\* and its search submitted in every state, also while the search of an earlier
\* request is queued or running and its handler awaits it.
C11_CoordinatorFree ==
    \A r \in Requests :
        (hstate[r] = "idle" /\ \A q \in Requests : q < r => hstate[q] # "idle")
        => ENABLED (\E u \in Commands : Entry(u).submit /\ Handle(r, u))

\* C11: submitting a search never blocks: the submission is accepted whatever
\* the number of busy worker threads, and while one request's search is in
\* flight further requests can be accepted and their searches submitted.
C11_SubmitNeverBlocks == C11_SubmitAccepted /\ C11_CoordinatorFree

\* The messages of r that carry a keypair or announce one: the success reply,
\* the document to the requester, the copy to the owner.
KeypairMessages(r) ==
    {i \in 1..Len(sent[r]) : sent[r][i].kind \in {"found", "wallet", "owner_copy"}}

\* C12 (state): a search whose worker call raised has returned no keypair, is
\* neither queued nor running, none of its handler's messages carries or
\* announces a keypair, and a handler that has returned has sent the waiting
\* notice and then the internal-error reply, nothing else.
C12_FailedNoKeypair ==
    \A r \in Requests :
        work[r] = "failed" =>
            /\ result[r] = NoResult
            /\ r \notin Running
            /\ \A i \in 1..Len(work_queue) : work_queue[i] # r
            /\ KeypairMessages(r) = {}
            /\ hstate[r] # "idle"
            /\ hstate[r] = "done" => Kinds(r) = <<"waiting", "error">>

\* C12 (steps): a search whose worker call raised stays failed and makes no
\* further pass, and the handler awaiting it leaves the await by sending the
\* internal-error reply to the chat of the command (or by being cancelled).
C12_FailedStaysFailed ==
    \A r \in Requests :
        work[r] = "failed" =>
            /\ work'[r] = "failed"
            /\ attempts'[r] = attempts[r]
            /\ result'[r] = NoResult
            /\ (hstate[r] = "awaiting" /\ hstate'[r] # "awaiting") =>
                  \/ hstate'[r] = "cancelled" /\ sent'[r] = sent[r]
                  \/ /\ hstate'[r] = "done"
                     /\ sent'[r] = Append(sent[r], Reply(update[r], "error", <<>>))

\* C12: when the worker call of a search raises, the request ends with the
\* internal-error reply, no keypair is delivered or announced to anyone, and
\* the search is not left running.
C12_WorkerFailureReported == []C12_FailedNoKeypair /\ [][C12_FailedStaysFailed]_vars

\* C12 witness: a search raised after a first pass that did not match, and its
\* handler has returned after the error reply.
C12_Witness ==
    \E r \in Requests :
        /\ work[r] = "failed"
        /\ attempts[r] >= 1
        /\ hstate[r] = "done"
        /\ Kinds(r) = <<"waiting", "error">>

\* C13: the pass of the search loop that brings the attempts counter to a
\* multiple of the period writes one progress record, and no other pass writes
\* any; the record changes nothing of what the pass returns.
C13_ProgressLogged ==
    [][\A r \in Requests :
          Pass(r) =>
              /\ progress'[r] = IF ProgressDue(attempts'[r])
                                THEN Append(progress[r], attempts'[r])
                                ELSE progress[r]
              /\ \A acct \in Drawn(r) :
                    Iteration(r, acct) =>
                        (work'[r] = "finished" => result'[r] = Returned(acct))]_vars

\* C14: results come in completion order, not submission order. A later
\* request b is not held behind an earlier request a whose search is still
\* queued or running: b's command can be handled while a's handler awaits, and
\* a search that has found its match can be delivered by the handler awaiting
\* it whatever the state of the other searches.
C14_CompletionOrder ==
    \A a \in Requests : \A b \in Requests :
        /\ (/\ a < b
            /\ hstate[a] = "awaiting" /\ work[a] \in {"pending", "running"}
            /\ hstate[b] = "idle"
            /\ \A q \in Requests : q < b => hstate[q] # "idle")
           => ENABLED (\E u \in Commands : Handle(b, u))
        /\ (hstate[b] = "awaiting" /\ work[b] = "finished") => ENABLED Deliver(b)

\* The component is given and has a character outside 0-9a-fA-F.
BadHex(arg) == Given(arg) /\ NonHex(arg)

\* C15: the checks are made in order, the prefix's hex check, the suffix's hex
\* check, then the lengths: a request with a non-hex prefix gets the prefix
\* error whatever its suffix and its lengths, one with a hex prefix and a
\* non-hex suffix gets the suffix error whatever the lengths, one with hex
\* components and one of them longer than 6 gets the length error; and a
\* request turned away has been sent exactly one reply.
C15_ValidationOrder ==
    \A r \in Requests :
        Parsed(r) =>
            /\ BadHex(RawPrefix(r)) => Kinds(r) = <<"prefix_not_hex">>
            /\ (~BadHex(RawPrefix(r)) /\ BadHex(RawSuffix(r)))
               => Kinds(r) = <<"suffix_not_hex">>
            /\ (/\ ~BadHex(RawPrefix(r)) /\ ~BadHex(RawSuffix(r))
                /\ (Len(RawPrefix(r)) > 6 \/ Len(RawSuffix(r)) > 6))
               => Kinds(r) = <<"too_long">>
            /\ work[r] = "none" => (Len(sent[r]) = 1 /\ hstate[r] = "done")

\* C15 witness: a request whose prefix is hex and too long and whose suffix is
\* too long and not hex was turned away with the suffix's hex error alone.
C15_Witness ==
    \E r \in Requests :
        /\ Parsed(r)
        /\ Len(RawPrefix(r)) > 6 /\ ~NonHex(RawPrefix(r))
        /\ Len(RawSuffix(r)) > 6 /\ NonHex(RawSuffix(r))
        /\ sent[r] = <<Reply(update[r], "suffix_not_hex", <<>>)>>
        /\ work[r] = "none"

\* C16: the address and the private key a search returns are those of one
\* account, the one drawn on the pass that matched: the address is the address
\* derived from the key (lowered) and matches the pattern; a search that has not
\* returned has handed over no keypair; every message that carries or announces
\* a keypair carries that one, and the handler sends at most one message of each
\* kind.
C16_SameKeypair ==
    \A r \in Requests :
        /\ work[r] = "finished" =>
              /\ result[r].private_key \in Keys
              /\ result[r].address = Lower(Address(result[r].private_key))
              /\ LoopReturns(pattern[r].prefix, pattern[r].suffix,
                             Account(result[r].private_key))
        /\ work[r] # "finished" => (result[r] = NoResult /\ KeypairMessages(r) = {})
        /\ \A i \in KeypairMessages(r) :
              /\ sent[r][i].address = result[r].address
              /\ sent[r][i].private_key \in {<<>>, result[r].private_key}
              /\ \A j \in KeypairMessages(r) :
                    sent[r][j].kind = sent[r][i].kind => j = i

\* C16 witness: a search returned on its second pass and its handler sent the
\* success reply, the document and the owner's copy, the last two with the key
\* the address is derived from.
C16_Witness ==
    \E r \in Requests :
        /\ work[r] = "finished" /\ attempts[r] = 2 /\ hstate[r] = "done"
        /\ Len(sent[r]) = 4
        /\ sent[r][3].kind = "wallet" /\ sent[r][4].kind = "owner_copy"
        /\ sent[r][3].private_key = sent[r][4].private_key
        /\ sent[r][2].address = Lower(Address(sent[r][3].private_key))

\* C17: a request with both components absent ("/generate -", "/generate - -")
\* passes validation and its search is submitted with the empty pattern; the
\* loop returns on whatever account it draws, so the search makes one pass and
\* returns with attempts = 1.
C17_EmptyPatternMatchesAll ==
    \A r \in Requests :
        (Parsed(r) /\ ~Given(RawPrefix(r)) /\ ~Given(RawSuffix(r))) =>
            /\ work[r] # "none"
            /\ Head(Kinds(r)) = "waiting"
            /\ pattern[r] = NoPattern
            /\ \A acct \in Accounts : LoopReturns(pattern[r].prefix, pattern[r].suffix, acct)
            /\ attempts[r] <= 1
            /\ attempts[r] = 1 <=> work[r] = "finished"

\* C17 witness: "/generate -" returned a keypair after one pass and its handler
\* delivered it.
C17_Witness ==
    \E r \in Requests :
        /\ Parsed(r)
        /\ update[r].args = << <<"-">> >>
        /\ work[r] = "finished" /\ attempts[r] = 1
        /\ hstate[r] = "done" /\ Kinds(r)[2] = "found"

\* The handler of r has delivered the keypair its search returned.
Delivered(r) == hstate[r] = "done" /\ work[r] = "finished"

\* The calls of r's handler that send the owner's copy.
OwnerCopies(r) == {i \in 1..Len(sent[r]) : sent[r][i].kind = "owner_copy"}

C19_KeyOnlyToRequesterAndOwner ==
    \A r \in Requests : \A i \in 1..Len(sent[r]) :
        LET m == sent[r][i] IN
        /\ m.private_key # <<>> =>
              /\ m.private_key = result[r].private_key
              /\ \/ m.kind = "wallet" /\ m.via = "send_document"
                    /\ m.chat_id = update[r].user.id
                 \/ m.kind = "owner_copy" /\ m.via = "send_message"
                    /\ m.chat_id = OWNER_CHAT_ID
        /\ m.via = "reply_text" =>
              /\ m.chat_id = update[r].chat_id
              /\ m.private_key = <<>>
              /\ m.address # <<>> => (m.kind = "found" /\ m.address = result[r].address)
        /\ m.kind \in {"wallet", "owner_copy"} => m.private_key # <<>>

\* C19 witness: a command sent from a group chat was answered there with the
\* address alone, and the key went to the requester's own chat and to the owner
\* chat, neither of them the group.
C19_Witness ==
    \E r \in Requests :
        /\ Delivered(r)
        /\ update[r].chat_id \notin {update[r].user.id, OWNER_CHAT_ID}
        /\ Len(sent[r]) = 4
        /\ sent[r][2].chat_id = update[r].chat_id
        /\ sent[r][2].address # <<>> /\ sent[r][2].private_key = <<>>
        /\ sent[r][3].chat_id = update[r].user.id /\ sent[r][3].private_key # <<>>
        /\ sent[r][4].chat_id = OWNER_CHAT_ID /\ sent[r][4].private_key # <<>>
        /\ sent[r][3].ok /\ sent[r][4].ok

====
